---- MODULE Spec2Model ----
(***************************************************************************)
(* A model of the message dispatch and worker-supervision engine of        *)
(* dgs-serial-logger:                                                      *)
(*   - atgmlogger/dispatcher.py  : Dispatcher (registry, run-lock, routing *)
(*                                 loop, exit)                             *)
(*   - atgmlogger/plugins        : PluginInterface (put / exit)            *)
(*   - SerialLogger.py           : SerialLogger.run (source supervisor)    *)
(* Threads are modelled as interleaved processes; every action is one      *)
(* step of one thread.                                                     *)
(***************************************************************************)
EXTENDS Integers, Sequences, FiniteSets, TLC

(***************************************************************************)
(* Bounds of the model.                                                    *)
(***************************************************************************)
\* number of messages the producers put on the main queues
MaxMsgs == 3
\* number of Dispatcher.register calls
MaxRegs == 2
\* number of exceptions raised inside Dispatcher.run
MaxErrors == 2

(***************************************************************************)
(* The universe: Dispatcher objects, plugin classes, message types.        *)
(***************************************************************************)
Dispatchers == {"d1", "d2"}
RegularClasses == {"W1", "W2"}
DaemonClasses == {"D1"}
DataLogger == "DataLogger"
ThreadClasses == RegularClasses \cup {DataLogger}
WIds == Dispatchers \X ThreadClasses
NoneType == "NoneType"
Kinds == {"DataLine", "Command"}
MsgTypes == Kinds \cup {NoneType}
ParamValues == {"p1", "p2"}
Unset == "unset"

\* Python's None: what exit() enqueues, and what a timed-out get leaves in item
None == [id |-> 0, kind |-> NoneType]
Messages == [id : 1..MaxMsgs, kind : Kinds]

\* type(item)
type(item) == item.kind

\* consumer_type() of a Regular plugin class: the message types it subscribes to.
\* W1 subscribes more widely than it accepts (the mis-routing put defends against).
consumer_type(klass) ==
    IF klass = "W1" THEN {"DataLine", "Command"} ELSE {"Command"}

\* the consumerType class attribute: the types isinstance(item, consumerType) accepts
consumerType(klass) ==
    IF klass = "W1" THEN {"DataLine"} ELSE {"Command"}

\* PluginDaemon.condition(item): a static predicate over the routed item
condition(klass, item) == type(item) = "Command"

VARIABLES
    \* ---- class-level state of Dispatcher
    _plugins,          \* registered Regular plugin classes
    _daemons,          \* registered Daemon plugin classes
    _params,           \* class -> stored parameters
    dconf,             \* daemon class -> what klass.configure was last given
    _runlock,          \* <<"free">>, <<"run", d>> or <<"register">>
    \* ---- the thread calling Dispatcher.register
    regpc, regarg, nregs,
    \* ---- per Dispatcher object
    pc,                \* position of the Dispatcher thread in run()
    item,              \* run()'s local item
    sig_exit,          \* the exit Event
    _queue,            \* the main queue
    _threads,          \* self._threads
    plugin_type_map,   \* run()'s local plugin_type_map: type -> set of instances
    live_daemons,      \* run()'s local live_daemons: class -> instance (0: absent)
    iter,              \* what is left of the for loop run() is in
    logged,            \* the calls logger.log(item) made so far, in order
    dequeued,          \* the items _queue.get returned so far, in order
    \* ---- per plugin instance (and DataLogger thread) <<d, class>>
    wqueue,            \* the private queue
    wexitSig,          \* _exitSig
    wstate,            \* "none", "running", "done"
    wrecv,             \* the items enqueued into the private queue so far
    \* ---- daemon instances, in order of construction
    dinst,             \* sequence of [cls, owner, data, alive, exiting]
    \* ---- the thread calling Dispatcher.exit
    xpc, xjoin, xtodo,
    \* ---- producers
    nmsgs,
    \* ---- exceptions raised in run(), in order: [at, what]
    raised,
    \* ---- SerialLogger
    exit_signal,       \* self.exit_signal
    thr,               \* every Thread object created so far: [name, alive]
    threads,           \* run()'s local list threads, of indices into thr
    dev_thread,        \* run()'s local dev_thread (0: not assigned)
    sup_pc,            \* position of the main thread in SerialLogger.run
    join_idx,          \* clean_exit's position in its for loop over threads
    nfail,             \* transport failures so far
    \* ---- SerialLogger.usb_utility and the mount point it polls
    usb_pc,            \* position of the usb thread in usb_utility
    copied,            \* usb_utility's local copied
    usb_signal,        \* self.usb_signal
    err_signal,        \* self.err_signal
    ismount,           \* os.path.ismount(self.usbdev)
    free,              \* get_free(self.usbdev), in units of one log file
    usb_files          \* log files copied onto the mounted device

vars == <<_plugins, _daemons, _params, dconf, _runlock, regpc, regarg, nregs,
          pc, item, sig_exit, _queue, _threads, plugin_type_map, live_daemons,
          iter, logged, dequeued, wqueue, wexitSig, wstate, wrecv, dinst,
          xpc, xjoin, xtodo, nmsgs, raised,
          exit_signal, thr, threads, dev_thread, sup_pc, join_idx, nfail,
          usb_pc, copied, usb_signal, err_signal, ismount, free, usb_files>>

regvars == <<_plugins, _daemons, _params, dconf>>
regcall == <<regpc, regarg, nregs>>
runvars == <<pc, item, plugin_type_map, live_daemons, iter, logged, dequeued>>
wvars == <<wqueue, wexitSig, wstate, wrecv>>
xvars == <<xpc, xjoin, xtodo>>
supvars == <<exit_signal, thr, threads, dev_thread, sup_pc, join_idx, nfail>>
usbvars == <<usb_pc, copied, usb_signal, err_signal, ismount, free, usb_files>>
dispvars == <<regvars, _runlock, regcall, runvars, sig_exit, _queue, _threads,
              wvars, dinst, xvars, nmsgs, raised>>

Free == <<"free">>

\* threading.Thread.is_alive() of the Dispatcher thread
is_alive(d) == pc[d] \notin {"init", "done", "failed"}

\* the Dispatcher thread is inside the part of run() that holds the run-lock
Running(d) == pc[d] \notin {"init", "acquire", "done", "failed"}

Range(s) == {s[i] : i \in DOMAIN s}

(***************************************************************************)
(* Initial states.                                                         *)
(***************************************************************************)
InitObjects ==
    /\ _runlock = Free
    /\ regpc = "idle" /\ regarg = [klass |-> "W1", params |-> "p1"] /\ nregs = 0
    /\ pc = [d \in Dispatchers |-> "init"]
    /\ item = [d \in Dispatchers |-> None]
    /\ sig_exit = [d \in Dispatchers |-> FALSE]
    /\ _threads = [d \in Dispatchers |-> {}]
    /\ plugin_type_map = [d \in Dispatchers |-> [t \in MsgTypes |-> {}]]
    /\ live_daemons = [d \in Dispatchers |-> [k \in DaemonClasses |-> 0]]
    /\ iter = [d \in Dispatchers |-> {}]
    /\ logged = [d \in Dispatchers |-> <<>>]
    /\ dequeued = [d \in Dispatchers |-> <<>>]
    /\ wqueue = [w \in WIds |-> <<>>]
    /\ wexitSig = [w \in WIds |-> FALSE]
    /\ wstate = [w \in WIds |-> "none"]
    /\ wrecv = [w \in WIds |-> <<>>]
    /\ dinst = <<>>
    /\ xpc = [d \in Dispatchers |-> "idle"]
    /\ xjoin = [d \in Dispatchers |-> FALSE]
    /\ xtodo = [d \in Dispatchers |-> {}]
    /\ nmsgs = 0
    /\ raised = [d \in Dispatchers |-> <<>>]
    /\ exit_signal = FALSE
    /\ thr = <<>>
    /\ threads = <<>>
    /\ dev_thread = 0
    /\ sup_pc = "led"
    /\ join_idx = 0
    /\ nfail = 0
    /\ usb_pc = "init"
    /\ copied = FALSE
    /\ usb_signal = FALSE
    /\ err_signal = FALSE
    /\ ismount = FALSE
    /\ free = 0
    /\ usb_files = 0

\* the registry as the plugin modules loaded at start-up leave it; nothing is
\* queued yet
Init ==
    /\ InitObjects
    /\ _plugins = {"W1", "W2"}
    /\ _daemons = {"D1"}
    /\ _params = [k \in RegularClasses \cup DaemonClasses |-> "p1"]
    /\ dconf = [k \in DaemonClasses |-> "p1"]
    /\ _queue = [d \in Dispatchers |-> <<>>]

\* two Dispatcher objects, each with one message put on its queue before it
\* is started
LockInit ==
    /\ InitObjects
    /\ _plugins = {"W1"}
    /\ _daemons = {"D1"}
    /\ _params = [k \in RegularClasses \cup DaemonClasses |->
                    IF k = "W2" THEN Unset ELSE "p1"]
    /\ dconf = [k \in DaemonClasses |-> "p1"]
    /\ _queue = [d \in Dispatchers |->
                    IF d = "d1" THEN <<[id |-> 1, kind |-> "Command"]>>
                    ELSE <<[id |-> 2, kind |-> "DataLine"]>>]

\* a registry that is still being filled, and one Dispatcher object with one
\* message put on its queue before it is started
RegInit ==
    /\ InitObjects
    /\ _plugins = {"W1"}
    /\ _daemons = {}
    /\ _params = [k \in RegularClasses \cup DaemonClasses |->
                    IF k = "W1" THEN "p1" ELSE Unset]
    /\ dconf = [k \in DaemonClasses |-> Unset]
    /\ _queue = [d \in Dispatchers |->
                    IF d = "d1" THEN <<[id |-> 1, kind |-> "Command"]>> ELSE <<>>]

(***************************************************************************)
(* Dispatcher.register (a class method, called by the plugin loader).      *)
(***************************************************************************)
\* Dispatcher.register(klass, **params) is called
register_call(klass, params) ==
    /\ regpc = "idle"
    /\ nregs < MaxRegs
    /\ regpc' = "acquire"
    /\ regarg' = [klass |-> klass, params |-> params]
    /\ nregs' = nregs + 1
    /\ UNCHANGED <<supvars, usbvars>>
    /\ UNCHANGED <<regvars, _runlock, runvars, sig_exit, _queue, _threads,
                   wvars, dinst, xvars, nmsgs, raised>>

\* a register that does not take the run-lock
register_acquire_nolock ==
    /\ regpc = "acquire"
    /\ regpc' = "locked"
    /\ UNCHANGED <<supvars, usbvars>>
    /\ UNCHANGED <<regvars, _runlock, regarg, nregs, runvars, sig_exit, _queue,
                   _threads, wvars, dinst, xvars, nmsgs, raised>>

\* cls.acquire_lock(): blocks until the run-lock is free
register_acquire ==
    /\ regpc = "acquire"
    /\ _runlock = Free
    /\ _runlock' = <<"register">>
    /\ regpc' = "locked"
    /\ UNCHANGED <<supvars, usbvars>>
    /\ UNCHANGED <<regvars, regarg, nregs, runvars, sig_exit, _queue, _threads,
                   wvars, dinst, xvars, nmsgs, raised>>

\* a register that stores the class and its parameters again when the class
\* is already registered
register_body_overwrite ==
    /\ regpc = "locked"
    /\ LET klass == regarg.klass
           params == regarg.params
       IN  IF klass \in RegularClasses
           THEN /\ _plugins' = _plugins \cup {klass}
                /\ _params' = [_params EXCEPT ![klass] = params]
                /\ UNCHANGED <<_daemons, dconf>>
           ELSE /\ _daemons' = _daemons \cup {klass}
                /\ dconf' = [dconf EXCEPT ![klass] = params]
                /\ _params' = [_params EXCEPT ![klass] = params]
                /\ UNCHANGED _plugins
    /\ _runlock' = Free
    /\ regpc' = "idle"
    /\ UNCHANGED <<supvars, usbvars>>
    /\ UNCHANGED <<regarg, nregs, runvars, sig_exit, _queue, _threads, wvars,
                   dinst, xvars, nmsgs, raised>>

\* the if / elif / else of register, then cls.release_lock()
register_body ==
    /\ regpc = "locked"
    /\ LET klass == regarg.klass
           params == regarg.params
       IN  IF klass \in RegularClasses /\ klass \notin _plugins
           THEN /\ _plugins' = _plugins \cup {klass}
                /\ _params' = [_params EXCEPT ![klass] = params]
                /\ UNCHANGED <<_daemons, dconf>>
           ELSE IF klass \in DaemonClasses /\ klass \notin _daemons
           THEN /\ _daemons' = _daemons \cup {klass}
                /\ dconf' = [dconf EXCEPT ![klass] = params]
                /\ _params' = [_params EXCEPT ![klass] = params]
                /\ UNCHANGED _plugins
           ELSE UNCHANGED regvars
    /\ _runlock' = Free
    /\ regpc' = "idle"
    /\ UNCHANGED <<supvars, usbvars>>
    /\ UNCHANGED <<regarg, nregs, runvars, sig_exit, _queue, _threads, wvars,
                   dinst, xvars, nmsgs, raised>>

\* the elif branch of register for a new daemon class whose configure hook
\* raises an exception other than AttributeError and TypeError: the class is
\* already in _daemons, the exception leaves register before
\* cls._params[klass] = params and before cls.release_lock()
register_configure_raises ==
    /\ regpc = "locked"
    /\ regarg.klass \in DaemonClasses
    /\ regarg.klass \notin _daemons
    /\ _daemons' = _daemons \cup {regarg.klass}
    /\ regpc' = "raised"
    /\ UNCHANGED <<supvars, usbvars>>
    /\ UNCHANGED <<_plugins, _params, dconf, _runlock, regarg, nregs, runvars,
                   sig_exit, _queue, _threads, wvars, dinst, xvars, nmsgs, raised>>

(***************************************************************************)
(* Producers: Dispatcher.put / Dispatcher.signal / AppContext.log_rotate   *)
(* put a message on the main queue of a Dispatcher.                        *)
(***************************************************************************)
Dispatcher_put(d, kind) ==
    /\ nmsgs < MaxMsgs
    /\ nmsgs' = nmsgs + 1
    /\ _queue' = [_queue EXCEPT ![d] = Append(@, [id |-> nmsgs + 1, kind |-> kind])]
    /\ UNCHANGED <<supvars, usbvars>>
    /\ UNCHANGED <<regvars, _runlock, regcall, runvars, sig_exit, _threads,
                   wvars, dinst, xvars, raised>>

\* the messages of the routing scenario, in the order they are put: a data
\* line, a SIGHUP command, a data line
Scenario == <<"DataLine", "Command", "DataLine">>

Scenario_put(d) ==
    /\ nmsgs < Len(Scenario)
    /\ Dispatcher_put(d, Scenario[nmsgs + 1])

\* a feed with two commands, one before and one after a data line
TwoCommands == <<"Command", "DataLine", "Command">>

TwoCommands_put(d) ==
    /\ nmsgs < Len(TwoCommands)
    /\ Dispatcher_put(d, TwoCommands[nmsgs + 1])

(***************************************************************************)
(* PluginInterface: put and exit, and the thread of a plugin instance.     *)
(***************************************************************************)
\* a put onto a last-in first-out queue
PluginInterface_put_lifo(q, klass, it) ==
    IF type(it) \in consumerType(klass) THEN <<it>> \o q ELSE q

\* a put without the isinstance test
PluginInterface_put_unfiltered(q, klass, it) == Append(q, it)

\* PluginInterface.put: the private queue after put(item)
PluginInterface_put(q, klass, it) ==
    IF type(it) \in consumerType(klass) THEN Append(q, it) ELSE q

\* PluginInterface.exit(join): with join, first wait for the queue to drain
PluginInterface_exit_enabled(w, join) == join => wqueue[w] = <<>>

\* the run() loop of a plugin: take one item from the private queue
Plugin_run_get(w) ==
    /\ wstate[w] = "running"
    /\ wqueue[w] # <<>>
    /\ wqueue' = [wqueue EXCEPT ![w] = Tail(@)]
    /\ UNCHANGED <<supvars, usbvars>>
    /\ UNCHANGED <<regvars, _runlock, regcall, runvars, sig_exit, _queue,
                   _threads, wexitSig, wstate, wrecv, dinst, xvars, nmsgs, raised>>

\* the run() loop of a plugin sees its exit signal and returns
Plugin_run_return(w) ==
    /\ wstate[w] = "running"
    /\ wexitSig[w]
    /\ wstate' = [wstate EXCEPT ![w] = "done"]
    /\ UNCHANGED <<supvars, usbvars>>
    /\ UNCHANGED <<regvars, _runlock, regcall, runvars, sig_exit, _queue,
                   _threads, wqueue, wexitSig, wrecv, dinst, xvars, nmsgs, raised>>

\* a daemon instance runs to completion
Daemon_run_return(i) ==
    /\ i \in DOMAIN dinst
    /\ dinst[i].alive
    /\ dinst' = [dinst EXCEPT ![i].alive = FALSE]
    /\ UNCHANGED <<supvars, usbvars>>
    /\ UNCHANGED <<regvars, _runlock, regcall, runvars, sig_exit, _queue,
                   _threads, wvars, xvars, nmsgs, raised>>

(***************************************************************************)
(* Dispatcher.run, one step of the Dispatcher thread per action.           *)
(***************************************************************************)
\* Thread.start() of the Dispatcher object
Dispatcher_start(d) ==
    /\ pc[d] = "init"
    /\ pc' = [pc EXCEPT ![d] = "acquire"]
    /\ UNCHANGED <<supvars, usbvars>>
    /\ UNCHANGED <<regvars, _runlock, regcall, item, plugin_type_map,
                   live_daemons, iter, logged, dequeued, sig_exit, _queue,
                   _threads, wvars, dinst, xvars, nmsgs, raised>>

\* a run that goes on without waiting for the run-lock
Dispatcher_run_acquire_nonblocking(d) ==
    /\ pc[d] = "acquire"
    /\ _runlock' = <<"run", d>>
    /\ pc' = [pc EXCEPT ![d] = "logger"]
    /\ UNCHANGED <<supvars, usbvars>>
    /\ UNCHANGED <<regvars, regcall, item, plugin_type_map, live_daemons, iter,
                   logged, dequeued, sig_exit, _queue, _threads, wvars, dinst,
                   xvars, nmsgs, raised>>

\* self.acquire_lock(blocking=True)
Dispatcher_run_acquire(d) ==
    /\ pc[d] = "acquire"
    /\ _runlock = Free
    /\ _runlock' = <<"run", d>>
    /\ pc' = [pc EXCEPT ![d] = "logger"]
    /\ UNCHANGED <<supvars, usbvars>>
    /\ UNCHANGED <<regvars, regcall, item, plugin_type_map, live_daemons, iter,
                   logged, dequeued, sig_exit, _queue, _threads, wvars, dinst,
                   xvars, nmsgs, raised>>

\* logger = DataLogger(...); logger.start(); self._threads.add(logger);
\* then the for loop over self._plugins begins
Dispatcher_run_logger(d) ==
    /\ pc[d] = "logger"
    /\ wstate' = [wstate EXCEPT ![<<d, DataLogger>>] = "running"]
    /\ _threads' = [_threads EXCEPT ![d] = @ \cup {<<d, DataLogger>>}]
    /\ iter' = [iter EXCEPT ![d] = _plugins]
    /\ pc' = [pc EXCEPT ![d] = IF _plugins = {} THEN "loop" ELSE "plugins"]
    /\ UNCHANGED <<supvars, usbvars>>
    /\ UNCHANGED <<regvars, _runlock, regcall, item, plugin_type_map,
                   live_daemons, logged, dequeued, sig_exit, _queue, wqueue,
                   wexitSig, wrecv, dinst, xvars, nmsgs, raised>>

\* one pass of the for loop over self._plugins: the plugin is instantiated,
\* configured, subscribed to its consumer types, started and added to _threads
Dispatcher_run_plugin(d, plugin) ==
    /\ pc[d] = "plugins"
    /\ plugin \in iter[d]
    /\ LET instance == <<d, plugin>>
       IN  /\ plugin_type_map' = [plugin_type_map EXCEPT ![d] =
                  [ctype \in MsgTypes |->
                      IF ctype \in consumer_type(plugin)
                      THEN @[ctype] \cup {instance} ELSE @[ctype]]]
           /\ wstate' = [wstate EXCEPT ![instance] = "running"]
           /\ _threads' = [_threads EXCEPT ![d] = @ \cup {instance}]
    /\ iter' = [iter EXCEPT ![d] = @ \ {plugin}]
    /\ pc' = [pc EXCEPT ![d] = IF iter[d] = {plugin} THEN "loop" ELSE "plugins"]
    /\ UNCHANGED <<supvars, usbvars>>
    /\ UNCHANGED <<regvars, _runlock, regcall, item, live_daemons, logged,
                   dequeued, sig_exit, _queue, wqueue, wexitSig, wrecv, dinst,
                   xvars, nmsgs, raised>>

\* a loop that goes on until the main queue is empty once the exit signal is set
Dispatcher_run_while_draining(d) ==
    /\ pc[d] = "loop"
    /\ IF sig_exit[d] /\ _queue[d] = <<>>
       THEN /\ _runlock' = Free
            /\ pc' = [pc EXCEPT ![d] = "done"]
       ELSE /\ pc' = [pc EXCEPT ![d] = "get"]
            /\ UNCHANGED _runlock
    /\ UNCHANGED <<supvars, usbvars>>
    /\ UNCHANGED <<regvars, regcall, item, plugin_type_map, live_daemons, iter,
                   logged, dequeued, sig_exit, _queue, _threads, wvars, dinst,
                   xvars, nmsgs, raised>>

\* while not self.sig_exit.is_set(): ... ; self.release_lock()
Dispatcher_run_while(d) ==
    /\ pc[d] = "loop"
    /\ IF sig_exit[d]
       THEN /\ _runlock' = Free
            /\ pc' = [pc EXCEPT ![d] = "done"]
       ELSE /\ pc' = [pc EXCEPT ![d] = "get"]
            /\ UNCHANGED _runlock
    /\ UNCHANGED <<supvars, usbvars>>
    /\ UNCHANGED <<regvars, regcall, item, plugin_type_map, live_daemons, iter,
                   logged, dequeued, sig_exit, _queue, _threads, wvars, dinst,
                   xvars, nmsgs, raised>>

\* a get that waits without a timeout
Dispatcher_run_get_blocking(d) ==
    /\ pc[d] = "get"
    /\ _queue[d] # <<>>
    /\ item' = [item EXCEPT ![d] = Head(_queue[d])]
    /\ _queue' = [_queue EXCEPT ![d] = Tail(@)]
    /\ dequeued' = [dequeued EXCEPT ![d] = Append(@, Head(_queue[d]))]
    /\ pc' = [pc EXCEPT ![d] = "log"]
    /\ UNCHANGED <<supvars, usbvars>>
    /\ UNCHANGED <<regvars, _runlock, regcall, plugin_type_map, live_daemons,
                   iter, logged, sig_exit, _threads, wvars, dinst, xvars, nmsgs,
                   raised>>

\* item = self._queue.get(block=True, timeout=POLL_INTV); on queue.Empty
\* item = None and the loop goes on to the daemons
Dispatcher_run_get(d) ==
    /\ pc[d] = "get"
    /\ IF _queue[d] # <<>>
       THEN /\ item' = [item EXCEPT ![d] = Head(_queue[d])]
            /\ _queue' = [_queue EXCEPT ![d] = Tail(@)]
            /\ dequeued' = [dequeued EXCEPT ![d] = Append(@, Head(_queue[d]))]
            /\ pc' = [pc EXCEPT ![d] = "log"]
            /\ UNCHANGED iter
       ELSE /\ item' = [item EXCEPT ![d] = None]
            /\ iter' = [iter EXCEPT ![d] = _daemons]
            /\ pc' = [pc EXCEPT ![d] = IF _daemons = {} THEN "prune" ELSE "daemons"]
            /\ UNCHANGED <<_queue, dequeued>>
    /\ UNCHANGED <<supvars, usbvars>>
    /\ UNCHANGED <<regvars, _runlock, regcall, plugin_type_map, live_daemons,
                   logged, sig_exit, _threads, wvars, dinst, xvars, nmsgs, raised>>

\* a run that logs data lines only
Dispatcher_run_log_data_only(d) ==
    /\ pc[d] = "log"
    /\ logged' = [logged EXCEPT ![d] =
                     IF type(item[d]) = "DataLine" THEN Append(@, item[d]) ELSE @]
    /\ pc' = [pc EXCEPT ![d] = "fanout"]
    /\ UNCHANGED <<supvars, usbvars>>
    /\ UNCHANGED <<regvars, _runlock, regcall, item, plugin_type_map,
                   live_daemons, iter, dequeued, sig_exit, _queue, _threads,
                   wvars, dinst, xvars, nmsgs, raised>>

\* logger.log(item)
Dispatcher_run_log(d) ==
    /\ pc[d] = "log"
    /\ logged' = [logged EXCEPT ![d] = Append(@, item[d])]
    /\ pc' = [pc EXCEPT ![d] = "fanout"]
    /\ UNCHANGED <<supvars, usbvars>>
    /\ UNCHANGED <<regvars, _runlock, regcall, item, plugin_type_map,
                   live_daemons, iter, dequeued, sig_exit, _queue, _threads,
                   wvars, dinst, xvars, nmsgs, raised>>

\* for subscriber in plugin_type_map.get(type(item), set()): subscriber.put(item)
\* then self._queue.task_done(), and the for loop over self._daemons begins
Dispatcher_run_fanout(d) ==
    /\ pc[d] = "fanout"
    /\ LET subscribers == plugin_type_map[d][type(item[d])]
       IN  /\ wqueue' = [w \in WIds |->
                  IF w \in subscribers
                  THEN PluginInterface_put(wqueue[w], w[2], item[d])
                  ELSE wqueue[w]]
           /\ wrecv' = [w \in WIds |->
                  IF wqueue'[w] # wqueue[w] THEN Append(wrecv[w], item[d])
                  ELSE wrecv[w]]
    /\ iter' = [iter EXCEPT ![d] = _daemons]
    /\ pc' = [pc EXCEPT ![d] = IF _daemons = {} THEN "prune" ELSE "daemons"]
    /\ UNCHANGED <<supvars, usbvars>>
    /\ UNCHANGED <<regvars, _runlock, regcall, item, plugin_type_map,
                   live_daemons, logged, dequeued, sig_exit, _queue, _threads,
                   wexitSig, wstate, dinst, xvars, nmsgs, raised>>

\* a spawn test that does not look at live_daemons
spawns_ignoring_live(d, daemon) == condition(daemon, item[d])

\* if daemon not in live_daemons and daemon.condition(item)
spawns(d, daemon) == live_daemons[d][daemon] = 0 /\ condition(daemon, item[d])

\* one pass of the for loop over self._daemons
Dispatcher_run_daemon(d, daemon) ==
    /\ pc[d] = "daemons"
    /\ daemon \in iter[d]
    /\ IF spawns(d, daemon)
       THEN /\ dinst' = Append(dinst, [cls |-> daemon, owner |-> d, data |-> item[d],
                                    alive |-> TRUE, exiting |-> FALSE])
            /\ live_daemons' = [live_daemons EXCEPT ![d][daemon] = Len(dinst) + 1]
       ELSE UNCHANGED <<dinst, live_daemons>>
    /\ iter' = [iter EXCEPT ![d] = @ \ {daemon}]
    /\ pc' = [pc EXCEPT ![d] = IF iter[d] = {daemon} THEN "prune" ELSE "daemons"]
    /\ UNCHANGED <<supvars, usbvars>>
    /\ UNCHANGED <<regvars, _runlock, regcall, item, plugin_type_map, logged,
                   dequeued, sig_exit, _queue, _threads, wvars, xvars, nmsgs, raised>>

\* live_daemons = {k: v for k, v in live_daemons.items() if v.is_alive()}
prune(ld) ==
    [k \in DaemonClasses |-> IF ld[k] # 0 /\ dinst[ld[k]].alive THEN ld[k] ELSE 0]

Dispatcher_run_prune(d) ==
    /\ pc[d] = "prune"
    /\ live_daemons' = [live_daemons EXCEPT ![d] = prune(@)]
    /\ pc' = [pc EXCEPT ![d] = "loop"]
    /\ UNCHANGED <<supvars, usbvars>>
    /\ UNCHANGED <<regvars, _runlock, regcall, item, plugin_type_map, iter,
                   logged, dequeued, sig_exit, _queue, _threads, wvars, dinst,
                   xvars, nmsgs, raised>>

(***************************************************************************)
(* Dispatcher.run: the exceptions raised inside it.                        *)
(***************************************************************************)
\* the record of an exception raised at a place of run() for a class or item
Raised(at, cls, it) == [at |-> at, cls |-> cls, item |-> it]

\* a failure of instantiation that ends run()
Dispatcher_run_plugin_raises_fatal(d, plugin) ==
    /\ pc[d] = "plugins"
    /\ plugin \in iter[d]
    /\ Len(raised[d]) < MaxErrors
    /\ raised' = [raised EXCEPT ![d] = Append(@, Raised("plugin", plugin, item[d]))]
    /\ pc' = [pc EXCEPT ![d] = "failed"]
    /\ UNCHANGED <<supvars, usbvars>>
    /\ UNCHANGED <<regvars, _runlock, regcall, item, plugin_type_map, live_daemons,
                   iter, logged, dequeued, sig_exit, _queue, _threads, wvars, dinst,
                   xvars, nmsgs>>

\* one pass of the for loop over self._plugins in which plugin(), set_context
\* or configure raises TypeError, ValueError, AttributeError or RuntimeError:
\* LOG.exception, continue
Dispatcher_run_plugin_raises(d, plugin) ==
    /\ pc[d] = "plugins"
    /\ plugin \in iter[d]
    /\ Len(raised[d]) < MaxErrors
    /\ raised' = [raised EXCEPT ![d] = Append(@, Raised("plugin", plugin, item[d]))]
    /\ iter' = [iter EXCEPT ![d] = @ \ {plugin}]
    /\ pc' = [pc EXCEPT ![d] = IF iter[d] = {plugin} THEN "loop" ELSE "plugins"]
    /\ UNCHANGED <<supvars, usbvars>>
    /\ UNCHANGED <<regvars, _runlock, regcall, item, plugin_type_map, live_daemons,
                   logged, dequeued, sig_exit, _queue, _threads, wvars, dinst,
                   xvars, nmsgs>>

\* a failure of logger.log that is caught and passed over
Dispatcher_run_log_raises_swallowed(d) ==
    /\ pc[d] = "log"
    /\ Len(raised[d]) < MaxErrors
    /\ raised' = [raised EXCEPT ![d] = Append(@, Raised("log", DataLogger, item[d]))]
    /\ pc' = [pc EXCEPT ![d] = "fanout"]
    /\ UNCHANGED <<supvars, usbvars>>
    /\ UNCHANGED <<regvars, _runlock, regcall, item, plugin_type_map, live_daemons,
                   iter, logged, dequeued, sig_exit, _queue, _threads, wvars, dinst,
                   xvars, nmsgs>>

\* logger.log(item) raises: the call is in the else clause of the try, no
\* handler of run() applies, the exception ends run() and the Dispatcher
\* thread (self.release_lock() is not reached)
Dispatcher_run_log_raises(d) ==
    /\ pc[d] = "log"
    /\ Len(raised[d]) < MaxErrors
    /\ raised' = [raised EXCEPT ![d] = Append(@, Raised("log", DataLogger, item[d]))]
    /\ pc' = [pc EXCEPT ![d] = "failed"]
    /\ UNCHANGED <<supvars, usbvars>>
    /\ UNCHANGED <<regvars, _runlock, regcall, item, plugin_type_map, live_daemons,
                   iter, logged, dequeued, sig_exit, _queue, _threads, wvars, dinst,
                   xvars, nmsgs>>

\* a TypeError of the daemon constructor that ends run()
Dispatcher_run_daemon_TypeError_fatal(d, daemon) ==
    /\ pc[d] = "daemons"
    /\ daemon \in iter[d]
    /\ spawns(d, daemon)
    /\ Len(raised[d]) < MaxErrors
    /\ raised' = [raised EXCEPT ![d] = Append(@, Raised("daemon", daemon, item[d]))]
    /\ pc' = [pc EXCEPT ![d] = "failed"]
    /\ UNCHANGED <<supvars, usbvars>>
    /\ UNCHANGED <<regvars, _runlock, regcall, item, plugin_type_map, live_daemons,
                   iter, logged, dequeued, sig_exit, _queue, _threads, wvars, dinst,
                   xvars, nmsgs>>

\* one pass of the for loop over self._daemons in which
\* daemon(context=..., data=item) raises TypeError: LOG.exception, and
\* live_daemons is left as it was
Dispatcher_run_daemon_TypeError(d, daemon) ==
    /\ pc[d] = "daemons"
    /\ daemon \in iter[d]
    /\ spawns(d, daemon)
    /\ Len(raised[d]) < MaxErrors
    /\ raised' = [raised EXCEPT ![d] = Append(@, Raised("daemon", daemon, item[d]))]
    /\ iter' = [iter EXCEPT ![d] = @ \ {daemon}]
    /\ pc' = [pc EXCEPT ![d] = IF iter[d] = {daemon} THEN "prune" ELSE "daemons"]
    /\ UNCHANGED <<supvars, usbvars>>
    /\ UNCHANGED <<regvars, _runlock, regcall, item, plugin_type_map, live_daemons,
                   logged, dequeued, sig_exit, _queue, _threads, wvars, dinst,
                   xvars, nmsgs>>

(***************************************************************************)
(* Dispatcher.exit(join), one step of the calling thread per action.       *)
(***************************************************************************)
\* self._active_daemons: created empty in __init__ and never added to
_active_daemons(d) == {}

\* for daemon in self._active_daemons: daemon.exit(join=join)
exit_daemons(d) ==
    [i \in DOMAIN dinst |->
        IF i \in _active_daemons(d) THEN [dinst[i] EXCEPT !.exiting = TRUE]
        ELSE dinst[i]]

\* exit(join) is called on a started Dispatcher: self.sig_exit.set()
Dispatcher_exit_set(d, join) ==
    /\ xpc[d] = "idle"
    /\ pc[d] # "init"
    /\ sig_exit' = [sig_exit EXCEPT ![d] = TRUE]
    /\ xjoin' = [xjoin EXCEPT ![d] = join]
    /\ xpc' = [xpc EXCEPT ![d] = "sentinel"]
    /\ UNCHANGED <<supvars, usbvars>>
    /\ UNCHANGED <<regvars, _runlock, regcall, runvars, _queue, _threads, wvars,
                   dinst, xtodo, nmsgs, raised>>

\* if self.is_alive(): self._queue.put(None); then _exit_threads begins its
\* for loop over self._threads (with no thread, its loop over the daemons)
Dispatcher_exit_sentinel(d) ==
    /\ xpc[d] = "sentinel"
    /\ _queue' = [_queue EXCEPT ![d] = IF is_alive(d) THEN Append(@, None) ELSE @]
    /\ xtodo' = [xtodo EXCEPT ![d] = _threads[d]]
    /\ xpc' = [xpc EXCEPT ![d] = IF _threads[d] = {} THEN "join" ELSE "threads"]
    /\ dinst' = IF _threads[d] = {} THEN exit_daemons(d) ELSE dinst
    /\ UNCHANGED <<supvars, usbvars>>
    /\ UNCHANGED <<regvars, _runlock, regcall, runvars, sig_exit, _threads,
                   wvars, xjoin, nmsgs, raised>>

\* the set self._threads has the size it had when the for loop of
\* _exit_threads made its iterator: the threads already passed over (their exit
\* signal is set) and those still to come are all there is
same_size(d) == _threads[d] = xtodo[d] \cup {w \in _threads[d] : wexitSig[w]}

\* the for loop of _exit_threads asks its set iterator for the next thread after
\* run() has added one to self._threads: RuntimeError (Set changed size during
\* iteration), which nothing in exit() catches
Dispatcher_exit_RuntimeError(d) ==
    /\ xpc[d] = "threads"
    /\ ~same_size(d)
    /\ xpc' = [xpc EXCEPT ![d] = "raised"]
    /\ UNCHANGED <<supvars, usbvars>>
    /\ UNCHANGED <<regvars, _runlock, regcall, runvars, sig_exit, _queue,
                   _threads, wvars, dinst, xjoin, xtodo, nmsgs, raised>>

\* one pass of for thread in self._threads: thread.exit(join=join); after the
\* last one, for daemon in self._active_daemons: daemon.exit(join=join)
Dispatcher_exit_thread(d, thread) ==
    /\ xpc[d] = "threads"
    /\ same_size(d)
    /\ thread \in xtodo[d]
    /\ PluginInterface_exit_enabled(thread, xjoin[d])
    /\ wexitSig' = [wexitSig EXCEPT ![thread] = TRUE]
    /\ xtodo' = [xtodo EXCEPT ![d] = @ \ {thread}]
    /\ xpc' = [xpc EXCEPT ![d] = IF xtodo[d] = {thread} THEN "join" ELSE "threads"]
    /\ dinst' = IF xtodo[d] = {thread} THEN exit_daemons(d) ELSE dinst
    /\ UNCHANGED <<supvars, usbvars>>
    /\ UNCHANGED <<regvars, _runlock, regcall, runvars, sig_exit, _queue,
                   _threads, wqueue, wstate, wrecv, xjoin, nmsgs, raised>>

\* if join: self.join()
Dispatcher_exit_join(d) ==
    /\ xpc[d] = "join"
    /\ xjoin[d] => ~is_alive(d)
    /\ xpc' = [xpc EXCEPT ![d] = "returned"]
    /\ UNCHANGED <<supvars, usbvars>>
    /\ UNCHANGED <<regvars, _runlock, regcall, runvars, sig_exit, _queue,
                   _threads, wvars, dinst, xjoin, xtodo, nmsgs, raised>>

(***************************************************************************)
(* SerialLogger.run: the supervisor of the ingestion thread of self.device, *)
(* one step of the main thread per action; and the threads it starts.      *)
(***************************************************************************)
\* transport failures (serial.SerialException) the environment produces
MaxFailures == 2

\* self.device, and the names of the two utility threads
device == "/dev/ttyS0"
ledsignal == "ledsignal"
usbutility == "usbutility"

\* t.is_alive()
thread_is_alive(t) == thr[t].alive

\* [t.name for t in threads]
names(ts) == {thr[ts[i]].name : i \in DOMAIN ts}

\* threading.Thread(target=..., name=name).start(): a new Thread object
Thread_start(name) == Append(thr, [name |-> name, alive |-> TRUE])

\* led_thread is created, started and appended
SerialLogger_run_led ==
    /\ sup_pc = "led"
    /\ thr' = Thread_start(ledsignal)
    /\ threads' = Append(threads, Len(thr) + 1)
    /\ sup_pc' = "usb"
    /\ UNCHANGED <<exit_signal, dev_thread, join_idx, nfail>>
    /\ UNCHANGED dispvars
    /\ UNCHANGED usbvars

\* usb_thread is created, started and appended
SerialLogger_run_usb ==
    /\ sup_pc = "usb"
    /\ thr' = Thread_start(usbutility)
    /\ threads' = Append(threads, Len(thr) + 1)
    /\ sup_pc' = "while"
    /\ UNCHANGED <<exit_signal, dev_thread, join_idx, nfail>>
    /\ UNCHANGED dispvars
    /\ UNCHANGED usbvars

\* while not self.exit_signal.is_set(): ... ; return self.clean_exit(threads)
SerialLogger_run_while ==
    /\ sup_pc = "while"
    /\ sup_pc' = IF exit_signal THEN "clean_exit" ELSE "filter"
    /\ UNCHANGED <<exit_signal, thr, threads, dev_thread, join_idx, nfail>>
    /\ UNCHANGED dispvars
    /\ UNCHANGED usbvars

\* a filter that keeps the dead threads
filter_alive_keep_dead(ts) == ts

\* a filter that forgets every thread, the live ones included
filter_alive_drop_all(ts) == <<>>

\* list(filter(lambda x: x.is_alive(), threads[:]))
filter_alive(ts) == SelectSeq(ts, LAMBDA t : thread_is_alive(t))

\* threads = list(filter(lambda x: x.is_alive(), threads[:]))
SerialLogger_run_filter ==
    /\ sup_pc = "filter"
    /\ threads' = filter_alive(threads)
    /\ sup_pc' = "spawn"
    /\ UNCHANGED <<exit_signal, thr, dev_thread, join_idx, nfail>>
    /\ UNCHANGED dispvars
    /\ UNCHANGED usbvars

\* a supervisor that starts a thread on every poll
needs_thread_always(ts) == TRUE

\* if self.device not in [t.name for t in threads]
needs_thread(ts) == device \notin names(ts)

\* the if: dev_thread = threading.Thread(...); dev_thread.start()
SerialLogger_run_spawn ==
    /\ sup_pc = "spawn"
    /\ IF needs_thread(threads)
       THEN /\ thr' = Thread_start(device)
            /\ dev_thread' = Len(thr) + 1
            /\ sup_pc' = "append"
       ELSE /\ sup_pc' = "sleep"
            /\ UNCHANGED <<thr, dev_thread>>
    /\ UNCHANGED <<exit_signal, threads, join_idx, nfail>>
    /\ UNCHANGED dispvars
    /\ UNCHANGED usbvars

\* threads.append(dev_thread)
SerialLogger_run_append ==
    /\ sup_pc = "append"
    /\ threads' = Append(threads, dev_thread)
    /\ sup_pc' = "sleep"
    /\ UNCHANGED <<exit_signal, thr, dev_thread, join_idx, nfail>>
    /\ UNCHANGED dispvars
    /\ UNCHANGED usbvars

\* time.sleep(self.thread_poll_interval)
SerialLogger_run_sleep ==
    /\ sup_pc = "sleep"
    /\ sup_pc' = "while"
    /\ UNCHANGED <<exit_signal, thr, threads, dev_thread, join_idx, nfail>>
    /\ UNCHANGED dispvars
    /\ UNCHANGED usbvars

\* KeyboardInterrupt raised in the main thread: inside the try of run() it is
\* caught and run() returns self.clean_exit(threads); outside (the while test,
\* the sleep, the start of the utility threads) it reaches the __main__ block,
\* which sets exit_signal and exits
KeyboardInterrupt ==
    /\ sup_pc \in {"led", "usb", "while", "filter", "spawn", "append", "sleep"}
    /\ IF sup_pc \in {"filter", "spawn", "append"}
       THEN /\ sup_pc' = "clean_exit"
            /\ UNCHANGED exit_signal
       ELSE /\ sup_pc' = "exited"
            /\ exit_signal' = TRUE
    /\ UNCHANGED <<thr, threads, dev_thread, join_idx, nfail>>
    /\ UNCHANGED dispvars
    /\ UNCHANGED usbvars

\* clean_exit: self.exit_signal.set(), and its for loop over threads begins
SerialLogger_clean_exit ==
    /\ sup_pc = "clean_exit"
    /\ exit_signal' = TRUE
    /\ join_idx' = 1
    /\ sup_pc' = IF threads = <<>> THEN "returned" ELSE "join"
    /\ UNCHANGED <<thr, threads, dev_thread, nfail>>
    /\ UNCHANGED dispvars
    /\ UNCHANGED usbvars

\* one pass of clean_exit's for loop: if thread.is_alive(): thread.join()
SerialLogger_clean_exit_join ==
    /\ sup_pc = "join"
    /\ ~thread_is_alive(threads[join_idx])
    /\ join_idx' = join_idx + 1
    /\ sup_pc' = IF join_idx = Len(threads) THEN "returned" ELSE "join"
    /\ UNCHANGED <<exit_signal, thr, threads, dev_thread, nfail>>
    /\ UNCHANGED dispvars
    /\ UNCHANGED usbvars

\* device_listener returns 1: serial.SerialException on opening or reading
device_listener_error(t) ==
    /\ t \in DOMAIN thr
    /\ thr[t].name = device
    /\ thread_is_alive(t)
    /\ nfail < MaxFailures
    /\ nfail' = nfail + 1
    /\ thr' = [thr EXCEPT ![t].alive = FALSE]
    /\ UNCHANGED <<exit_signal, threads, dev_thread, sup_pc, join_idx>>
    /\ UNCHANGED dispvars
    /\ UNCHANGED usbvars

\* device_listener, led_signaler and usb_utility leave their
\* while not self.exit_signal.is_set() loop and return
thread_exit(t) ==
    /\ t \in DOMAIN thr
    /\ thread_is_alive(t)
    /\ exit_signal
    /\ thr' = [thr EXCEPT ![t].alive = FALSE]
    /\ UNCHANGED <<exit_signal, threads, dev_thread, sup_pc, join_idx, nfail>>
    /\ UNCHANGED dispvars
    /\ UNCHANGED usbvars

\* led_signaler returns 1 at once when the GPIO module is not available
led_signaler_no_gpio(t) ==
    /\ t \in DOMAIN thr
    /\ thr[t].name = ledsignal
    /\ thread_is_alive(t)
    /\ thr' = [thr EXCEPT ![t].alive = FALSE]
    /\ UNCHANGED <<exit_signal, threads, dev_thread, sup_pc, join_idx, nfail>>
    /\ UNCHANGED dispvars
    /\ UNCHANGED usbvars

(***************************************************************************)
(* SerialLogger.usb_utility: the thread that copies the log files onto a   *)
(* filesystem mounted at self.usbdev; and the mount point.  Sizes are in   *)
(* units of one log file.                                                  *)
(***************************************************************************)
\* the largest number of free units of a mounted device
MaxFree == 3
\* the number of log files glob finds in self.logdir
LogFiles == 2

\* copy_size: the sum of os.path.getsize over the log files
copy_size == LogFiles

\* the Thread object that runs usb_utility
usb_thread(t) == t \in DOMAIN thr /\ thr[t].name = usbutility /\ thread_is_alive(t)

\* the thread enters usb_utility: copied = False
usb_utility_enter ==
    /\ usb_pc = "init"
    /\ \E t \in DOMAIN thr : usb_thread(t)
    /\ usb_pc' = "while"
    /\ copied' = FALSE
    /\ UNCHANGED <<usb_signal, err_signal, ismount, free, usb_files>>
    /\ UNCHANGED supvars
    /\ UNCHANGED dispvars

\* while not self.exit_signal.is_set(); when it is set usb_utility returns
usb_utility_while ==
    /\ usb_pc = "while"
    /\ IF exit_signal
       THEN /\ usb_pc' = "returned"
            /\ thr' = [t \in DOMAIN thr |->
                          IF usb_thread(t) THEN [thr[t] EXCEPT !.alive = FALSE]
                          ELSE thr[t]]
       ELSE /\ usb_pc' = "poll"
            /\ UNCHANGED thr
    /\ UNCHANGED <<copied, usb_signal, err_signal, ismount, free, usb_files>>
    /\ UNCHANGED <<exit_signal, threads, dev_thread, sup_pc, join_idx, nfail>>
    /\ UNCHANGED dispvars

\* the body of the while loop up to its sleep: the if / elif on the mount
\* point, the test of the free space, the copy
usb_utility_poll ==
    /\ usb_pc = "poll"
    /\ IF ~ismount
       THEN /\ copied' = FALSE
            /\ usb_pc' = "sleep"
            /\ UNCHANGED <<usb_signal, err_signal, free, usb_files>>
       ELSE IF ~copied
       THEN IF copy_size > free
            THEN /\ usb_signal' = TRUE
                 /\ err_signal' = TRUE
                 /\ copied' = TRUE
                 /\ usb_pc' = "while"
                 /\ UNCHANGED <<free, usb_files>>
            ELSE /\ usb_files' = usb_files + LogFiles
                 /\ free' = free - copy_size
                 /\ copied' = TRUE
                 /\ usb_signal' = FALSE
                 /\ usb_pc' = "sleep"
                 /\ UNCHANGED err_signal
       ELSE /\ usb_pc' = "sleep"
            /\ UNCHANGED <<copied, usb_signal, err_signal, free, usb_files>>
    /\ UNCHANGED ismount
    /\ UNCHANGED supvars
    /\ UNCHANGED dispvars

\* time.sleep(self.usb_poll_interval)
usb_utility_sleep ==
    /\ usb_pc = "sleep"
    /\ usb_pc' = "while"
    /\ UNCHANGED <<copied, usb_signal, err_signal, ismount, free, usb_files>>
    /\ UNCHANGED supvars
    /\ UNCHANGED dispvars

\* a device with f free units and none of the log files is mounted
mount(f) ==
    /\ ~ismount
    /\ ismount' = TRUE
    /\ free' = f
    /\ usb_files' = 0
    /\ UNCHANGED <<usb_pc, copied, usb_signal, err_signal>>
    /\ UNCHANGED supvars
    /\ UNCHANGED dispvars

\* the device is unmounted
umount ==
    /\ ismount
    /\ ismount' = FALSE
    /\ free' = 0
    /\ usb_files' = 0
    /\ UNCHANGED <<usb_pc, copied, usb_signal, err_signal>>
    /\ UNCHANGED supvars
    /\ UNCHANGED dispvars

\* the free space of the mounted device changes (files of others are removed
\* or written)
statvfs_changes(f) ==
    /\ ismount
    /\ f # free
    /\ free' = f
    /\ UNCHANGED <<usb_pc, copied, usb_signal, err_signal, ismount, usb_files>>
    /\ UNCHANGED supvars
    /\ UNCHANGED dispvars

(***************************************************************************)
(* Specifications.                                                         *)
(***************************************************************************)
\* the Dispatcher thread of d, the thread calling d.exit, and the threads of
\* d's plugins
DispatcherThreads(d) ==
    \/ Dispatcher_start(d)
    \/ Dispatcher_run_acquire(d)
    \/ Dispatcher_run_logger(d)
    \/ \E plugin \in RegularClasses : Dispatcher_run_plugin(d, plugin)
    \/ Dispatcher_run_while(d)
    \/ Dispatcher_run_get(d)
    \/ Dispatcher_run_log(d)
    \/ Dispatcher_run_fanout(d)
    \/ \E daemon \in DaemonClasses : Dispatcher_run_daemon(d, daemon)
    \/ Dispatcher_run_prune(d)
    \/ \E join \in BOOLEAN : Dispatcher_exit_set(d, join)
    \/ Dispatcher_exit_sentinel(d)
    \/ \E thread \in WIds : Dispatcher_exit_thread(d, thread)
    \/ Dispatcher_exit_RuntimeError(d)
    \/ Dispatcher_exit_join(d)
    \/ \E klass \in ThreadClasses : Plugin_run_get(<<d, klass>>)
    \/ \E klass \in ThreadClasses : Plugin_run_return(<<d, klass>>)

\* one Dispatcher object, its plugins and daemons, its producers and the
\* thread that calls exit
Next ==
    \/ DispatcherThreads("d1")
    \/ \E kind \in Kinds : Dispatcher_put("d1", kind)
    \/ \E i \in DOMAIN dinst : Daemon_run_return(i)

Spec == Init /\ [][Next]_vars

\* a registry of one worker that accepts data lines only and one daemon
ScenInit ==
    /\ InitObjects
    /\ _plugins = {"W1"}
    /\ _daemons = {"D1"}
    /\ _params = [k \in RegularClasses \cup DaemonClasses |->
                    IF k = "W2" THEN Unset ELSE "p1"]
    /\ dconf = [k \in DaemonClasses |-> "p1"]
    /\ _queue = [d \in Dispatchers |-> <<>>]

\* one Dispatcher object fed the routing scenario
ScenNext ==
    \/ DispatcherThreads("d1")
    \/ Scenario_put("d1")
    \/ \E i \in DOMAIN dinst : Daemon_run_return(i)

ScenSpec == ScenInit /\ [][ScenNext]_vars

\* one Dispatcher object in whose run() exceptions are raised
FailNext ==
    \/ DispatcherThreads("d1")
    \/ TwoCommands_put("d1")
    \/ \E i \in DOMAIN dinst : Daemon_run_return(i)
    \/ \E plugin \in RegularClasses : Dispatcher_run_plugin_raises("d1", plugin)
    \/ Dispatcher_run_log_raises("d1")
    \/ \E daemon \in DaemonClasses : Dispatcher_run_daemon_TypeError("d1", daemon)

FailSpec == Init /\ [][FailNext]_vars

\* the steps of the Dispatcher thread of d: run()
Dispatcher_run(d) ==
    \/ Dispatcher_run_acquire(d)
    \/ Dispatcher_run_logger(d)
    \/ \E plugin \in RegularClasses : Dispatcher_run_plugin(d, plugin)
    \/ Dispatcher_run_while(d)
    \/ Dispatcher_run_get(d)
    \/ Dispatcher_run_log(d)
    \/ Dispatcher_run_fanout(d)
    \/ \E daemon \in DaemonClasses : Dispatcher_run_daemon(d, daemon)
    \/ Dispatcher_run_prune(d)

\* the scenario with a Dispatcher thread that is scheduled again and again: no
\* call inside run() waits without bound (the get has a timeout, the puts are
\* put_nowait on unbounded queues); nothing is assumed of the other threads
LiveSpec == ScenInit /\ [][ScenNext]_vars /\ WF_vars(Dispatcher_run("d1"))

\* two Dispatcher objects started in one process
LockNext ==
    \/ \E d \in Dispatchers : DispatcherThreads(d)
    \/ \E i \in DOMAIN dinst : Daemon_run_return(i)

LockSpec == LockInit /\ [][LockNext]_vars

\* one Dispatcher object and a thread that registers plugin classes
RegNext ==
    \/ DispatcherThreads("d1")
    \/ \E i \in DOMAIN dinst : Daemon_run_return(i)
    \/ \E klass \in RegularClasses \cup DaemonClasses, params \in ParamValues :
          register_call(klass, params)
    \/ register_acquire
    \/ register_body

RegSpec == RegInit /\ [][RegNext]_vars

\* the same with a daemon class whose configure hook raises
RegFailNext ==
    \/ RegNext
    \/ register_configure_raises

RegFailSpec == RegInit /\ [][RegFailNext]_vars

\* SerialLogger.run, the threads it starts, and interruption of the main thread
SupNext ==
    \/ SerialLogger_run_led
    \/ SerialLogger_run_usb
    \/ SerialLogger_run_while
    \/ SerialLogger_run_filter
    \/ SerialLogger_run_spawn
    \/ SerialLogger_run_append
    \/ SerialLogger_run_sleep
    \/ KeyboardInterrupt
    \/ SerialLogger_clean_exit
    \/ SerialLogger_clean_exit_join
    \/ \E t \in DOMAIN thr : device_listener_error(t)
    \/ \E t \in DOMAIN thr : thread_exit(t)
    \/ \E t \in DOMAIN thr : led_signaler_no_gpio(t)

SupSpec == Init /\ [][SupNext]_vars

\* SerialLogger.run and its threads, with usb_utility followed step by step
\* and a mount point that devices come to and leave
UsbNext ==
    \/ SerialLogger_run_led
    \/ SerialLogger_run_usb
    \/ SerialLogger_run_while
    \/ SerialLogger_run_filter
    \/ SerialLogger_run_spawn
    \/ SerialLogger_run_append
    \/ SerialLogger_run_sleep
    \/ KeyboardInterrupt
    \/ SerialLogger_clean_exit
    \/ SerialLogger_clean_exit_join
    \/ \E t \in DOMAIN thr : device_listener_error(t)
    \/ \E t \in DOMAIN thr : thr[t].name # usbutility /\ thread_exit(t)
    \/ \E t \in DOMAIN thr : led_signaler_no_gpio(t)
    \/ usb_utility_enter
    \/ usb_utility_while
    \/ usb_utility_poll
    \/ usb_utility_sleep
    \/ \E f \in 0..MaxFree : mount(f)
    \/ umount
    \/ \E f \in 0..MaxFree : statvfs_changes(f)

UsbSpec == Init /\ [][UsbNext]_vars

(***************************************************************************)
(* The claims.                                                             *)
(***************************************************************************)
RECURSIVE IsSubseq(_, _)
\* s can be had from t by deleting elements
IsSubseq(s, t) ==
    IF s = <<>> THEN TRUE
    ELSE IF t = <<>> THEN FALSE
    ELSE IF Head(s) = Head(t) THEN IsSubseq(Tail(s), Tail(t))
    ELSE IsSubseq(s, Tail(t))

\* s is the end of t
IsSuffix(s, t) ==
    /\ Len(s) <= Len(t)
    /\ s = SubSeq(t, Len(t) - Len(s) + 1, Len(t))

\* the DataLine and Command messages of a sequence of items
Proper(s) == SelectSeq(s, LAMBDA it : type(it) # NoneType)

\* the started and unfinished instances of daemon class k spawned by d's run
LiveInstances(d, k) ==
    {i \in DOMAIN dinst : dinst[i].owner = d /\ dinst[i].cls = k /\ dinst[i].alive}

\* C1: in every state of a Dispatcher run, every daemon class has at most one
\* started and unfinished instance spawned by that run
C1_AtMostOneLiveDaemon ==
    \A d \in Dispatchers, k \in DaemonClasses : Cardinality(LiveInstances(d, k)) <= 1

\* C1's case: an instance finished, and a later message spawned the next one
C1_Witness ==
    \E i, j \in DOMAIN dinst :
        /\ i < j /\ dinst[i].cls = dinst[j].cls /\ dinst[i].owner = dinst[j].owner
        /\ ~dinst[i].alive /\ dinst[j].alive

\* the ingestion threads of self.device that are alive
LiveDeviceThreads == {t \in DOMAIN thr : thr[t].name = device /\ thr[t].alive}

\* C2: at most one live ingestion thread exists for the source identifier
C2_AtMostOneLiveIngestionThread == Cardinality(LiveDeviceThreads) <= 1

\* C2's case: an ingestion thread died and another one is alive
C2_Witness ==
    /\ LiveDeviceThreads # {}
    /\ \E t \in DOMAIN thr : thr[t].name = device /\ ~thr[t].alive

\* the tracked threads that bear the source identifier
TrackedDevice(ts) == {i \in DOMAIN ts : thr'[ts[i]].name = device}

\* C3: a poll (while the exit signal is not set) drops the dead threads from the
\* tracked list, keeps the live ones, and when no tracked thread bears the
\* source identifier starts exactly one thread for it, a new Thread object,
\* which it then tracks
C3_ReplacementOnNextPoll ==
    [][ /\ (sup_pc = "filter" /\ sup_pc' = "spawn") =>
              Range(threads') = {t \in Range(threads) : thr[t].alive}
        /\ (sup_pc = "spawn" /\ sup_pc' \notin {"spawn", "clean_exit"}
              /\ device \notin names(threads)) =>
              /\ sup_pc' = "append"
              /\ Len(thr') = Len(thr) + 1
              /\ dev_thread' \notin DOMAIN thr
              /\ thr'[dev_thread'] = [name |-> device, alive |-> TRUE]
        /\ (sup_pc = "append" /\ sup_pc' = "sleep") =>
              /\ threads' = Append(threads, dev_thread)
              /\ Cardinality(TrackedDevice(threads')) = 1
      ]_vars

\* C3's case: a poll has replaced a dead ingestion thread
C3_Witness ==
    /\ sup_pc = "sleep"
    /\ ~exit_signal
    /\ \E t \in DOMAIN thr :
          thr[t].name = device /\ ~thr[t].alive /\ t \notin Range(threads)
    /\ \E t \in Range(threads) : thr[t].name = device /\ thr[t].alive /\ t = dev_thread

\* C4: what was enqueued into a worker's private queue is a subsequence of what
\* the Dispatcher dequeued from the main queue, in the same order, and the
\* private queue holds the last of it in that order
C4_FifoPerWorker ==
    \A w \in WIds :
        /\ IsSubseq(wrecv[w], dequeued[w[1]])
        /\ IsSuffix(wqueue[w], wrecv[w])

\* C4's case: a worker was given two messages with another one routed between
C4_Witness ==
    \E w \in WIds :
        /\ Len(wrecv[w]) >= 2
        /\ Len(wqueue[w]) >= 2
        /\ Len(dequeued[w[1]]) > Len(wrecv[w])

\* C5: a put of a message whose type the worker does not accept leaves the
\* private queue as it was, and only messages of an accepted type are ever
\* in a private queue
C5_PutDropsUnaccepted ==
    /\ [](\A w \in WIds :
            /\ \A i \in DOMAIN wqueue[w] : type(wqueue[w][i]) \in consumerType(w[2])
            /\ \A i \in DOMAIN wrecv[w] : type(wrecv[w][i]) \in consumerType(w[2]))
    /\ [][\A d \in Dispatchers, w \in WIds :
            (pc[d] = "fanout" /\ pc'[d] # "fanout"
               /\ type(item[d]) \notin consumerType(w[2])
               /\ w \in plugin_type_map[d][type(item[d])])
            => (wqueue'[w] = wqueue[w] /\ wrecv'[w] = wrecv[w])]_vars

\* C5's case: a Command was put to W1, which subscribes to it and accepts
\* DataLine only
C5_Witness ==
    \E d \in Dispatchers :
        /\ pc[d] \in {"daemons", "prune"}
        /\ type(item[d]) = "Command"
        /\ <<d, "W1">> \in plugin_type_map[d]["Command"]
        /\ item[d] \notin Range(wrecv[<<d, "W1">>])

\* C6: exit(join=True) has returned only when the thread of every worker and of
\* every live daemon instance of the run has terminated
C6_ExitJoinWaitsForThreads ==
    \A d \in Dispatchers :
        (xpc[d] = "returned" /\ xjoin[d]) =>
            /\ \A w \in _threads[d] : wstate[w] # "running"
            /\ \A k \in DaemonClasses : LiveInstances(d, k) = {}

\* C7: no two Dispatcher runs are active at once, and a Dispatcher thread that
\* has not taken the run-lock has created no record sink and no worker and has
\* dequeued nothing
C7_OneRunAtATime ==
    /\ \A d, e \in Dispatchers : (Running(d) /\ Running(e)) => d = e
    /\ \A d \in Dispatchers :
          pc[d] \in {"init", "acquire"} =>
              /\ \A k \in ThreadClasses : wstate[<<d, k>>] = "none"
              /\ _threads[d] = {}
              /\ dequeued[d] = <<>>
              /\ logged[d] = <<>>

\* C7's case: a started Dispatcher waits for the run-lock while the other one
\* routes messages
C7_Witness ==
    \E d, e \in Dispatchers :
        /\ pc[d] = "acquire"
        /\ Running(e)
        /\ dequeued[e] # <<>>

\* C8: the registry does not change while a Dispatcher run holds the run-lock
C8_RegistryStableDuringRun ==
    [][(\E d \in Dispatchers : Running(d)) => UNCHANGED regvars]_vars

\* C8's case: a register call of a new class is waiting while a run goes on
C8_Witness ==
    /\ Running("d1")
    /\ regpc = "acquire"
    /\ regarg.klass \notin _plugins \cup _daemons

\* C9: the DataLine and Command messages passed to logger.log are those
\* dequeued, each once and in the order of dequeueing, the one being routed
\* included once its log call is made; and a worker is given only messages
\* that were logged
C9_LoggedOnceBeforeFanout ==
    \A d \in Dispatchers :
        LET deq == Proper(dequeued[d])
        IN  /\ Proper(logged[d]) =
                  IF pc[d] = "log" /\ type(item[d]) # NoneType
                  THEN SubSeq(deq, 1, Len(deq) - 1) ELSE deq
            /\ \A k \in ThreadClasses : Range(wrecv[<<d, k>>]) \subseteq Range(logged[d])

\* C9's case: a Command and a DataLine were logged and a worker was given one
C9_Witness ==
    \E d \in Dispatchers :
        /\ \E i, j \in DOMAIN logged[d] :
              type(logged[d][i]) = "Command" /\ type(logged[d][j]) = "DataLine"
        /\ \E k \in ThreadClasses : wrecv[<<d, k>>] # <<>>

\* C10: the sentinel None is not passed to the record sink, is put to no
\* worker and spawns no daemon
C10_SentinelIsNoOp ==
    \A d \in Dispatchers :
        /\ None \notin Range(logged[d])
        /\ \A k \in ThreadClasses : None \notin Range(wrecv[<<d, k>>])
        /\ \A i \in DOMAIN dinst : dinst[i].data # None

\* C11: whenever the run routes a message while a registered daemon class has
\* no started and unfinished instance, and the construction does not fail, the
\* condition decides: if it is true a new instance is started and recorded as
\* the only live instance of the class (a finished earlier instance does not
\* prevent it), if it is false nothing is spawned
C11_SpawnWhenNoLiveInstance ==
    [][\A d \in Dispatchers, k \in DaemonClasses :
          (/\ pc[d] = "daemons" /\ k \in iter[d] /\ k \notin iter'[d]
           /\ type(item[d]) # NoneType
           /\ LiveInstances(d, k) = {}
           /\ raised'[d] = raised[d])
          => IF condition(k, item[d])
             THEN /\ dinst' = Append(dinst, [cls |-> k, owner |-> d, data |-> item[d],
                                             alive |-> TRUE, exiting |-> FALSE])
                  /\ live_daemons'[d][k] = Len(dinst')
             ELSE dinst' = dinst]_vars

\* s is the beginning of t
IsPrefix(s, t) ==
    /\ Len(s) <= Len(t)
    /\ s = SubSeq(t, 1, Len(s))

\* the three messages of the scenario
ScenarioMsg(i) == [id |-> i, kind |-> Scenario[i]]

\* the iteration of d's routing loop that dequeued message m is over
Routed(d, m) ==
    /\ m \in Range(dequeued[d])
    /\ ~(item[d] = m /\ pc[d] \in {"log", "fanout", "daemons", "prune"})

\* C12: in the scenario (a worker accepting data lines only, a daemon whose
\* condition holds for commands; data line a, command, data line b) the
\* worker's private queue is given a then b and nothing else, and over the
\* whole run exactly one daemon instance is spawned, by the iteration that
\* routes the command
C12_ScenarioRouting ==
    LET w == <<"d1", "W1">>
        a == ScenarioMsg(1)
        c == ScenarioMsg(2)
        b == ScenarioMsg(3)
    IN  /\ IsPrefix(wrecv[w], <<a, b>>)
        /\ Routed("d1", a) => IsPrefix(<<a>>, wrecv[w])
        /\ Routed("d1", b) => wrecv[w] = <<a, b>>
        /\ Len(dinst) <= 1
        /\ \A i \in DOMAIN dinst :
              dinst[i].cls = "D1" /\ dinst[i].owner = "d1" /\ dinst[i].data = c
        /\ Routed("d1", c) => Len(dinst) = 1

\* C12's case: the run is over, it routed the three messages, the worker was
\* given the two data lines and the command spawned the one instance
C12_Witness ==
    /\ pc["d1"] = "done"
    /\ Proper(dequeued["d1"]) = <<ScenarioMsg(1), ScenarioMsg(2), ScenarioMsg(3)>>
    /\ wrecv[<<"d1", "W1">>] = <<ScenarioMsg(1), ScenarioMsg(3)>>
    /\ Len(dinst) = 1
    /\ dinst[1].data = ScenarioMsg(2)

\* C13: a register call for a class that is already registered leaves the
\* registry sets, the stored parameters and what the daemon's configure hook
\* was given as they were, releases the run-lock and returns
C13_RegisterIdempotent ==
    [][(/\ regpc = "locked" /\ regpc' # "locked"
        /\ regarg.klass \in _plugins \cup _daemons)
       => /\ UNCHANGED regvars
          /\ regpc' = "idle"
          /\ _runlock' = Free]_vars

\* C13's case: a daemon class was registered, then registered again with
\* other parameters, and the second call has returned
C13_Witness ==
    /\ regpc = "idle"
    /\ nregs = 2
    /\ regarg.klass \in _daemons
    /\ regarg.params # dconf[regarg.klass]
    /\ regarg.params # _params[regarg.klass]

\* C14: exit(join) puts the sentinel on the main queue when the Dispatcher
\* thread is waiting in its get, sets the exit signal of every worker it
\* passes over, and when its loops are over every daemon instance that is
\* started and unfinished at that moment has been told to exit
C14_ExitReachesEveryThread ==
    [][\A d \in Dispatchers :
          /\ (xpc[d] = "sentinel" /\ xpc'[d] # "sentinel" /\ pc[d] = "get")
                => _queue'[d] = Append(_queue[d], None)
          /\ \A w \in xtodo[d] \ xtodo'[d] : wexitSig'[w]
          /\ (xpc[d] \in {"sentinel", "threads"} /\ xpc'[d] = "join")
                => \A i \in DOMAIN dinst :
                      (dinst[i].owner = d /\ dinst[i].alive) => dinst'[i].exiting
      ]_vars

\* C15: when logger.log fails for a dequeued message the run ends with that
\* failure: the Dispatcher thread is dead, the message was put to no worker,
\* and it stays the last message the run dequeued
C15_LogFailureEndsRun ==
    \A d \in Dispatchers : \A i \in DOMAIN raised[d] :
        raised[d][i].at = "log" =>
            /\ i = Len(raised[d])
            /\ pc[d] = "failed"
            /\ ~is_alive(d)
            /\ dequeued[d] # <<>>
            /\ dequeued[d][Len(dequeued[d])] = raised[d][i].item
            /\ raised[d][i].item \notin Range(logged[d])
            /\ \A k \in ThreadClasses : raised[d][i].item \notin Range(wrecv[<<d, k>>])

\* C15's case: the log call failed for a Command, which has a running
\* subscriber that accepts it, while a later message waits on the main queue
C15_Witness ==
    \E d \in Dispatchers :
        /\ raised[d] # <<>>
        /\ raised[d][Len(raised[d])].at = "log"
        /\ type(raised[d][Len(raised[d])].item) = "Command"
        /\ <<d, "W2">> \in plugin_type_map[d]["Command"]
        /\ wstate[<<d, "W2">>] = "running"
        /\ _queue[d] # <<>>

\* the last exception raised in d's run()
LastRaised(d) == raised[d][Len(raised[d])]

\* C19: when the construction of a daemon instance raises TypeError the run
\* goes on with its loop, nothing is recorded in live_daemons for the class
\* and no instance exists for it; a run whose thread has died has a failed
\* log call as its last exception, never a failed construction
C19_DaemonTypeErrorIsolated ==
    /\ [][\A d \in Dispatchers :
            (raised'[d] # raised[d] /\ raised'[d][Len(raised'[d])].at = "daemon")
            => LET k == raised'[d][Len(raised'[d])].cls
               IN  /\ pc'[d] \in {"daemons", "prune"}
                   /\ live_daemons'[d][k] = 0
                   /\ LiveInstances(d, k) = {}
                   /\ dinst' = dinst]_vars
    /\ [](\A d \in Dispatchers :
            (raised[d] # <<>> /\ LastRaised(d).at = "daemon") => pc[d] # "failed")

\* C19's case: the construction failed for one Command, the run went on, and a
\* later Command spawned an instance of the same class
C19_Witness ==
    \E d \in Dispatchers : \E i \in DOMAIN raised[d], j \in DOMAIN dinst :
        /\ raised[d][i].at = "daemon"
        /\ dinst[j].owner = d
        /\ dinst[j].cls = raised[d][i].cls
        /\ dinst[j].data.id > raised[d][i].item.id
        /\ Len(dequeued[d]) > raised[d][i].item.id

\* the plugin classes whose instantiation failed in d's run()
FailedPlugins(d) ==
    {raised[d][i].cls : i \in {j \in DOMAIN raised[d] : raised[d][j].at = "plugin"}}

\* C20: once the for loop over the registered Regular plugins is over, a
\* plugin whose instantiation failed has no thread and is subscribed to no
\* message type, every other registered plugin is started, is in _threads and
\* is subscribed to its consumer types; and the failure does not end the run
C20_PluginFailureSkipsOnlyThatPlugin ==
    \A d \in Dispatchers :
        /\ pc[d] \notin {"init", "acquire", "logger", "plugins"} =>
              \A p \in _plugins :
                  LET instance == <<d, p>>
                  IN  IF p \in FailedPlugins(d)
                      THEN /\ wstate[instance] = "none"
                           /\ instance \notin _threads[d]
                           /\ \A t \in MsgTypes : instance \notin plugin_type_map[d][t]
                      ELSE /\ wstate[instance] # "none"
                           /\ instance \in _threads[d]
                           /\ \A t \in MsgTypes :
                                 instance \in plugin_type_map[d][t] <=> t \in consumer_type(p)
        /\ (raised[d] # <<>> /\ LastRaised(d).at = "plugin") => pc[d] # "failed"

\* C20's case: one plugin failed, the other one was started and has been given
\* a message by the routing loop
C20_Witness ==
    \E d \in Dispatchers : \E p, q \in RegularClasses :
        /\ p \in FailedPlugins(d)
        /\ q \notin FailedPlugins(d)
        /\ wstate[<<d, p>>] = "none"
        /\ wrecv[<<d, q>>] # <<>>

\* C16: no step of the supervisor drops a live thread from the tracked list or
\* ends a thread: a thread that leaves the list was dead, a live tracked thread
\* stays tracked as the same Thread object, and a thread's liveness changes
\* only by a step of that thread
C16_PollKeepsLiveThreads ==
    [][/\ \A t \in Range(threads) \ Range(threads') : ~thr[t].alive
       /\ \A t \in Range(threads) : thr[t].alive => t \in Range(threads')
       /\ \A t \in DOMAIN thr :
             thr'[t] # thr[t] => (sup_pc' = sup_pc /\ threads' = threads)
       /\ SelectSeq(threads', LAMBDA t : t \in Range(threads))
             = SelectSeq(threads, LAMBDA t : t \in Range(threads'))
      ]_vars

\* C16's case: a poll has replaced the dead ingestion thread while the usb
\* utility thread, started before it, is alive and still tracked
C16_Witness ==
    /\ sup_pc = "sleep"
    /\ ~exit_signal
    /\ \E t \in DOMAIN thr :
          thr[t].name = device /\ ~thr[t].alive /\ t \notin Range(threads)
    /\ \E i, j \in DOMAIN threads :
          /\ i < j
          /\ thr[threads[i]].name = usbutility /\ thr[threads[i]].alive
          /\ thr[threads[j]].name = device /\ thr[threads[j]].alive
          /\ threads[i] < threads[j]

\* C17: once the exit signal is set the supervisor starts no further thread,
\* and when the supervisor is over (run() has returned, or was left by an
\* interruption that reached the __main__ block) every thread it tracked has
\* terminated
C17_SupervisorJoinsBeforeReturning ==
    /\ sup_pc \in {"returned", "exited"} => \A t \in Range(threads) : ~thr[t].alive
    /\ exit_signal => sup_pc \notin {"spawn", "append"}

\* C18: a poll of usb_utility that finds the log files larger than the free
\* space of the mounted device copies no file and sets the error signal; and
\* after such an error, a poll that finds the device mounted, none of the
\* files on it and enough free space copies the files
C18_CapacityErrorThenRetry ==
    [][/\ (usb_pc = "poll" /\ usb_pc' # "poll" /\ ismount /\ ~copied
             /\ copy_size > free)
          => (usb_files' = usb_files /\ err_signal')
       /\ (usb_pc = "poll" /\ usb_pc' # "poll" /\ ismount /\ err_signal
             /\ usb_files = 0 /\ copy_size <= free)
          => usb_files' = LogFiles
      ]_vars

\* C21: a call of exit() that runs while run() is starting its workers neither
\* finds self._threads changed under its for loop nor misses a worker: once
\* its loop over self._threads is over, every thread run() has put into
\* self._threads has its exit signal set
C21_ExitSeesEveryWorker ==
    \A d \in Dispatchers :
        /\ xpc[d] # "raised"
        /\ xpc[d] \in {"join", "returned"} => \A w \in _threads[d] : wexitSig[w]

\* the exit signal of d is set and its Dispatcher thread is past the get of
\* the iteration that was in progress
PastLastGet(d) ==
    /\ sig_exit[d]
    /\ pc[d] \in {"log", "fanout", "daemons", "prune", "loop", "done", "failed"}

\* C22: once the exit signal is set the routing loop dequeues at most one
\* further item, the one of the iteration in progress: a thread waiting in its
\* get takes one item and is then past its last get, and a thread past its last
\* get stays so and dequeues nothing; what is left on the main queue is neither
\* logged nor put to a worker
C22_AtMostOneMoreIteration ==
    /\ [][\A d \in Dispatchers :
            /\ PastLastGet(d) => (PastLastGet(d)' /\ dequeued'[d] = dequeued[d])
            /\ (sig_exit[d] /\ dequeued'[d] # dequeued[d])
                  => (pc[d] = "get" /\ PastLastGet(d)'
                      /\ Len(dequeued'[d]) = Len(dequeued[d]) + 1)
            /\ (sig_exit[d] /\ pc[d] = "loop" /\ pc'[d] # "loop") => pc'[d] = "done"
            /\ pc[d] = "done" =>
                  /\ logged'[d] = logged[d]
                  /\ \A k \in ThreadClasses : wrecv'[<<d, k>>] = wrecv[<<d, k>>]
         ]_vars
    /\ [](\A d \in Dispatchers : \A i \in DOMAIN _queue[d] :
            type(_queue[d][i]) # NoneType =>
               /\ _queue[d][i] \notin Range(logged[d])
               /\ \A k \in ThreadClasses : _queue[d][i] \notin Range(wrecv[<<d, k>>]))

\* C22's case: the run is over, the one item it dequeued after the exit signal
\* was the sentinel, and a message is left on the main queue
C22_Witness ==
    \E d \in Dispatchers :
        /\ pc[d] = "done"
        /\ dequeued[d] # <<>>
        /\ dequeued[d][Len(dequeued[d])] = None
        /\ Proper(dequeued[d]) # <<>>
        /\ \E i \in DOMAIN _queue[d] : type(_queue[d][i]) # NoneType

\* C23: once the exit signal of a Dispatcher whose run holds the run-lock is
\* set, the run comes to its end and the run-lock is released, whether or not
\* anything is put on the main queue afterwards, the sentinel included
C23_ExitEndsTheRun ==
    \A d \in Dispatchers :
        (sig_exit[d] /\ Running(d)) ~> (pc[d] = "done" /\ _runlock = Free)

\* C23's case: exit() was called, the run ended and released the run-lock,
\* and neither a message nor the sentinel was ever put on the main queue
C23_Witness ==
    \E d \in Dispatchers :
        /\ xpc[d] = "returned"
        /\ pc[d] = "done"
        /\ _runlock = Free
        /\ nmsgs = 0
        /\ _queue[d] = <<>>
        /\ dequeued[d] = <<>>
        /\ _threads[d] # {}

\* C24: the run-lock is not left held: when run() is over, by its return or
\* by an exception, the lock is not held by that run, and when no register call
\* is in progress, the last one having returned or raised, the lock is not
\* held by register
C24_RunLockNeverLeftHeld ==
    /\ \A d \in Dispatchers : pc[d] \in {"done", "failed"} => _runlock # <<"run", d>>
    /\ regpc \in {"idle", "raised"} => _runlock # <<"register">>

\* C25: nothing is put into the private queue of a worker whose exit signal
\* is set
C25_NoPutAfterWorkerExit ==
    [][\A w \in WIds :
          wexitSig[w] => (wrecv'[w] = wrecv[w] /\ Len(wqueue'[w]) <= Len(wqueue[w]))
      ]_vars

====
